---------------------------- MODULE Spec2Model ----------------------------
(***************************************************************************)
(* Model of src/src/rfremoterunner/utils.py (robotframework-remoterunner). *)
(*                                                                         *)
(* Text is a sequence of one-character strings, encoded text a sequence of *)
(* byte values.  A zip archive is held as the set of its members, and the  *)
(* base64 text of some bytes as a payload record carrying these bytes.     *)
(* os.path is posixpath; os.linesep is an input of the text functions.     *)
(*                                                                         *)
(* One specification per group of functions:                               *)
(*   SpecAddr     normalize_xmlrpc_address                                 *)
(*   SpecPath     calculate_ts_parent_path                                 *)
(*   SpecText     write_file_to_disk followed by read_file_from_disk       *)
(*   SpecArchive  read_binary_from_disk / write_binary_to_disk, one caller *)
(*   SpecConc     two concurrent callers of read_binary_from_disk          *)
(*   SpecLoad     the module-level statements executed on import           *)
(* SpecLoad executes the import as the source has it; the other            *)
(* specifications execute the function bodies as written.                  *)
(***************************************************************************)
EXTENDS Integers, Sequences, FiniteSets, TLC

VARIABLES
    \* normalize_xmlrpc_address
    addr_arg,        \* the address the caller passed
    default_port,    \* the default_port argument
    address,         \* the local variable address
    addr_result,     \* the returned value
    apc,             \* position in normalize_xmlrpc_address
    \* calculate_ts_parent_path
    suite_parent,    \* node -> its parent node, 0 for None
    suite_name,      \* node -> its name
    suite,           \* the suite argument
    current_suite,   \* the local variable current_suite, 0 for None
    family_tree,     \* the local list family_tree
    ts_result,       \* the returned value
    tpc,             \* position in calculate_ts_parent_path
    \* write_file_to_disk, read_file_from_disk
    file_contents,   \* the text given to write_file_to_disk
    encoding,        \* the encoding argument of both calls
    into_lines,      \* the into_lines argument of read_file_from_disk
    linesep,         \* os.linesep of the platform
    disk,            \* the bytes of the file at path, NoFile when absent
    text_result,     \* what read_file_from_disk returned
    text_error,      \* the exception a call raised, "" for none
    xpc,             \* position in the write-then-read sequence
    \* the file system and the callers of read_binary_from_disk and
    \* write_binary_to_disk
    fs_files,        \* absolute path of a regular file -> its content
    fs_dirs,         \* the absolute paths of the directories
    cwd,             \* the current working directory of the process
    call,            \* caller -> the call it is in (fn, path, contents, into_lines)
    filename,        \* caller -> the local variable filename
    zipfile,         \* caller -> the local variable zipfile
    file_handle,     \* caller -> the file its open file_handle reads
    ret,             \* caller -> the value its last read_binary_from_disk returned
    bpc,             \* caller -> position in the function it executes
    err,             \* caller -> the exception its call raised, "" for none
    ncalls,          \* caller -> number of calls it has started
    src_tree,        \* caller -> the files (relative path, bytes) of the directory
                     \* its last read_binary_from_disk was given, at call time
    \* the import of the module
    load_env,        \* what the importing process provides
    module_globals,  \* the names bound in the module's namespace
    lpc,             \* index of the next module-level statement
    load_error,      \* the exception the import raised, "" for none
    logger_level,    \* the level of the module's logger
    root_handlers,   \* the handlers of the root logger
    called           \* the last function called after the import, its outcome

addrVars == <<addr_arg, default_port, address, addr_result, apc>>
pathVars == <<suite_parent, suite_name, suite, current_suite, family_tree,
              ts_result, tpc>>

textVars == <<file_contents, encoding, into_lines, linesep, disk, text_result,
              text_error, xpc>>

fsVars == <<fs_files, fs_dirs, cwd>>
callVars == <<call, filename, zipfile, file_handle, ret, bpc, err, ncalls,
              src_tree>>
binVars == <<fsVars, callVars>>

loadVars == <<load_env, module_globals, lpc, load_error, logger_level,
              root_handlers, called>>

vars == <<addrVars, pathVars, textVars, binVars, loadVars>>

\* what the actions of one group leave alone
exceptAddr == <<pathVars, textVars, binVars, loadVars>>
exceptPath == <<addrVars, textVars, binVars, loadVars>>
exceptText == <<addrVars, pathVars, binVars, loadVars>>
exceptBin == <<addrVars, pathVars, textVars, loadVars>>
exceptLoad == <<addrVars, pathVars, textVars, binVars>>

(***************************************************************************)
(* Characters and strings                                                  *)
(***************************************************************************)
LF == "\n"
CR == "\r"
NoValue == <<"<none>">>

Digits == <<"0", "1", "2", "3", "4", "5", "6", "7", "8", "9">>

IsDigit(c) == \E i \in 1..10 : Digits[i] = c

\* str.lower() on the characters the model uses
Lower(c) ==
    CASE c = "H" -> "h"
      [] c = "T" -> "t"
      [] c = "P" -> "p"
      [] c = "S" -> "s"
      [] OTHER -> c

LowerStr(s) == [i \in 1..Len(s) |-> Lower(s[i])]

StartsWith(s, prefix) ==
    /\ Len(s) >= Len(prefix)
    /\ SubSeq(s, 1, Len(prefix)) = prefix

EndsWith(s, suffix) ==
    /\ Len(s) >= Len(suffix)
    /\ SubSeq(s, Len(s) - Len(suffix) + 1, Len(s)) = suffix

\* '{}'.format(n) for a non-negative int: its decimal digits
RECURSIVE IntToStr(_)
IntToStr(n) ==
    IF n < 10 THEN <<Digits[n + 1]>>
    ELSE IntToStr(n \div 10) \o <<Digits[(n % 10) + 1]>>

\* All sequences over alphabet of length at most n
RECURSIVE SeqsUpTo(_, _)
SeqsUpTo(alphabet, n) ==
    IF n = 0 THEN {<<>>}
    ELSE LET shorter == SeqsUpTo(alphabet, n - 1)
         IN  shorter \cup {s \o <<c>> : s \in shorter, c \in alphabet}

RECURSIVE Repeat(_, _)
Repeat(c, n) == IF n = 0 THEN <<>> ELSE <<c>> \o Repeat(c, n - 1)

(***************************************************************************)
(* States of the functions a specification does not exercise                *)
(***************************************************************************)
IdleAddr ==
    /\ addr_arg = <<>>
    /\ default_port = 0
    /\ address = <<>>
    /\ addr_result = NoValue
    /\ apc = "idle"

IdlePath ==
    /\ suite_parent = <<>>
    /\ suite_name = <<>>
    /\ suite = 0
    /\ current_suite = 0
    /\ family_tree = <<>>
    /\ ts_result = NoValue
    /\ tpc = "idle"

IdleText ==
    /\ file_contents = <<>>
    /\ encoding = ""
    /\ into_lines = FALSE
    /\ linesep = <<>>
    /\ disk = NoValue
    /\ text_result = NoValue
    /\ text_error = ""
    /\ xpc = "idle"

IdleBin ==
    /\ fs_files = <<>>
    /\ fs_dirs = {}
    /\ cwd = <<>>
    /\ call = <<>>
    /\ filename = <<>>
    /\ zipfile = <<>>
    /\ file_handle = <<>>
    /\ ret = <<>>
    /\ bpc = <<>>
    /\ err = <<>>
    /\ ncalls = <<>>
    /\ src_tree = <<>>

IdleLoad ==
    /\ load_env = <<>>
    /\ module_globals = {}
    /\ lpc = 0
    /\ load_error = ""
    /\ logger_level = ""
    /\ root_handlers = {}
    /\ called = <<>>

(***************************************************************************)
(* normalize_xmlrpc_address                                                *)
(***************************************************************************)
\* PORT_INC_REGEX = '.*:[0-9]{1,5}$' : the repetition bounds of the digits
PortDigitsMin == 1
PortDigitsMax == 5

\* the pattern without its '$': a port-like run anywhere in s
PortIncMatch_SearchAnywhere(s) ==
    \E i \in 1..Len(s) :
        /\ s[i] = ":"
        /\ \E n \in PortDigitsMin..PortDigitsMax :
              /\ i + n <= Len(s)
              /\ \A k \in (i + 1)..(i + n) : IsDigit(s[k])

\* re.match(re.compile(PORT_INC_REGEX), s): the match starts at the start of
\* s, '.' matches every character but a line feed, '$' matches at the end
\* of s and also right before a line feed that ends s.
PortIncMatch(s) ==
    \E i \in 1..Len(s) :
        /\ s[i] = ":"
        /\ \A k \in 1..(i - 1) : s[k] # LF
        /\ \E n \in PortDigitsMin..PortDigitsMax :
              /\ i + n <= Len(s)
              /\ \A k \in (i + 1)..(i + n) : IsDigit(s[k])
              /\ \/ i + n = Len(s)
                 \/ i + n + 1 = Len(s) /\ s[Len(s)] = LF

HttpPrefix == <<"h", "t", "t", "p">>
HttpScheme == <<"h", "t", "t", "p", ":", "/", "/">>

\* address.lower().startswith('http')
StartsWithHttp(s) == StartsWith(LowerStr(s), HttpPrefix)

\* lines 105-106
AppendPort(a, port) ==
    IF ~PortIncMatch(a) THEN a \o <<":">> \o IntToStr(port) ELSE a

\* lines 107-108
PrependScheme(a) ==
    IF ~StartsWithHttp(a) THEN HttpScheme \o a ELSE a

\* ---- inputs ----
MaxFreeLen == 3
MaxSuffixDigits == 6

AddrAlphabet == {"a", "1", ":", "/", LF}

AddrPrefixes ==
    { <<>>,
      HttpPrefix,
      HttpScheme,
      <<"H", "T", "T", "P", "S", ":", "/", "/">>,
      <<"H", "t", "T", "p">>,
      <<"h", "t", "t">>,
      <<"f", "t", "p", ":", "/", "/">> }

AddrSuffixes ==
    {<<>>, <<LF>>}
    \cup {<<":">> \o Repeat("9", n) : n \in 0..MaxSuffixDigits}
    \cup {<<":">> \o Repeat("9", n) \o <<LF>> : n \in 1..MaxSuffixDigits}

Localhost == <<"l", "o", "c", "a", "l", "h", "o", "s", "t">>
IpWithPort == <<"1", "0", ".", "0", ".", "0", ".", "5", ":", "9", "0", "0", "0">>
HttpMyhost == HttpScheme \o <<"m", "y", "h", "o", "s", "t">>

AddressInputs ==
    {p \o f \o s : p \in AddrPrefixes,
                   f \in SeqsUpTo(AddrAlphabet, MaxFreeLen),
                   s \in AddrSuffixes}
    \cup {Localhost, IpWithPort, HttpMyhost}

PortInputs == {80, 8270}

InitAddr ==
    /\ addr_arg \in AddressInputs
    /\ default_port \in PortInputs
    /\ address = addr_arg
    /\ addr_result = NoValue
    /\ apc = "l105"
    /\ IdlePath /\ IdleText /\ IdleBin /\ IdleLoad

\* if not re.match(re.compile(PORT_INC_REGEX), address): address = '{}:{}'...
NormalizePort ==
    /\ apc = "l105"
    /\ address' = AppendPort(address, default_port)
    /\ apc' = "l107"
    /\ UNCHANGED <<addr_arg, default_port, addr_result, exceptAddr>>

\* if not address.lower().startswith('http'): address = 'http://{}'...
NormalizeScheme ==
    /\ apc = "l107"
    /\ address' = PrependScheme(address)
    /\ apc' = "l109"
    /\ UNCHANGED <<addr_arg, default_port, addr_result, exceptAddr>>

\* return address
NormalizeReturn ==
    /\ apc = "l109"
    /\ addr_result' = address
    /\ apc' = "done"
    /\ UNCHANGED <<addr_arg, default_port, address, exceptAddr>>

NextAddr ==
    \/ NormalizePort
    \/ NormalizeScheme
    \/ NormalizeReturn

SpecAddr == InitAddr /\ [][NextAddr]_vars

\* ---- the documented contract of normalize_xmlrpc_address ----
\* "ends with a colon followed by 1 to 5 digits", read off the end of s
EndsWithColonDigits(s) ==
    \E n \in 1..5 :
        /\ Len(s) >= n + 1
        /\ s[Len(s) - n] = ":"
        /\ \A k \in (Len(s) - n + 1)..Len(s) : IsDigit(s[k])

BeginsWithHttpAnyCase(s) ==
    /\ Len(s) >= 4
    /\ s[1] \in {"h", "H"}
    /\ s[2] \in {"t", "T"}
    /\ s[3] \in {"t", "T"}
    /\ s[4] \in {"p", "P"}

DocStep1(a, port) ==
    IF EndsWithColonDigits(a) THEN a ELSE a \o <<":">> \o IntToStr(port)

DocStep2(a) ==
    IF BeginsWithHttpAnyCase(a) THEN a ELSE HttpScheme \o a

DocNormalized(a, port) == DocStep2(DocStep1(a, port))

HasLineFeed(s) == \E i \in 1..Len(s) : s[i] = LF

Port8270 == <<"8", "2", "7", "0">>

NormalizeExamples ==
    /\ (addr_arg = Localhost /\ default_port = 8270)
          => addr_result = HttpScheme \o Localhost \o <<":">> \o Port8270
    /\ (addr_arg = IpWithPort /\ default_port = 8270)
          => addr_result = HttpScheme \o IpWithPort
    /\ (addr_arg = HttpMyhost /\ default_port = 8270)
          => addr_result = HttpMyhost \o <<":">> \o Port8270

\* C1 as stated: for every address string the returned value is the address
\* with ':default_port' appended iff it does not end with a colon and 1 to 5
\* digits, then 'http://' prepended iff that does not begin with 'http' in
\* any letter case; the three documented examples included.
C1_Original ==
    apc = "done" =>
        /\ addr_result = DocNormalized(addr_arg, default_port)
        /\ NormalizeExamples

\* C1 amended: the same two-step result for every address string that holds
\* no line feed character (for '$' also matches before a final line feed and
\* '.' does not match a line feed).
C1_NormalizeTwoSteps ==
    (apc = "done" /\ ~HasLineFeed(addr_arg)) =>
        /\ addr_result = DocNormalized(addr_arg, default_port)
        /\ NormalizeExamples

\* a call on ('localhost', 8270) has returned 'http://localhost:8270'
C1_Witness ==
    /\ apc = "done"
    /\ addr_arg = Localhost
    /\ default_port = 8270
    /\ addr_result = HttpScheme \o Localhost \o <<":">> \o Port8270

\* ---- accepted address forms and fully qualified URLs ----
Letters ==
    {"a", "c", "f", "h", "l", "m", "o", "p", "s", "t", "y", "H", "T", "P", "S"}

IsHostChar(c) == c \in Letters \/ IsDigit(c) \/ c = "."

IsHost(s) == Len(s) >= 1 /\ \A i \in 1..Len(s) : IsHostChar(s[i])

IsPortNumber(s) == Len(s) \in 1..5 /\ \A i \in 1..Len(s) : IsDigit(s[i])

IsSchemeName(s) == Len(s) >= 1 /\ \A i \in 1..Len(s) : s[i] \in Letters

\* host:port
IsHostPort(s) ==
    \E i \in 2..(Len(s) - 1) :
        /\ s[i] = ":"
        /\ IsHost(SubSeq(s, 1, i - 1))
        /\ IsPortNumber(SubSeq(s, i + 1, Len(s)))

\* s = scheme '://' rest, with rest satisfying the given form
SchemeThen(s, hostPort) ==
    \E i \in 2..(Len(s) - 3) :
        /\ SubSeq(s, i, i + 2) = <<":", "/", "/">>
        /\ IsSchemeName(SubSeq(s, 1, i - 1))
        /\ LET rest == SubSeq(s, i + 3, Len(s))
           IN  IF hostPort THEN IsHostPort(rest) ELSE IsHost(rest)

\* host, host:port, scheme://host, scheme://host:port
AcceptedForm(s) ==
    \/ IsHost(s)
    \/ IsHostPort(s)
    \/ SchemeThen(s, FALSE)
    \/ SchemeThen(s, TRUE)

\* exactly one scheme, '://', the host, exactly one ':port' at the end
FullyQualifiedUrl(s) == SchemeThen(s, TRUE)

\* C2: for every address of an accepted form the returned value is a fully
\* qualified URL scheme://host:port, also for a host name that begins with
\* 'http' and for a scheme other than http/https.
C2_FullyQualified ==
    (apc = "done" /\ AcceptedForm(addr_arg)) => FullyQualifiedUrl(addr_result)

(***************************************************************************)
(* calculate_ts_parent_path                                                *)
(***************************************************************************)
BackSlash == "\\"
Slash == "/"

\* posixpath.join(a, *p)
RECURSIVE PosixJoinFrom(_, _, _)
PosixJoinFrom(path, parts, i) ==
    IF i > Len(parts) THEN path
    ELSE LET b == parts[i]
             joined ==
                 IF StartsWith(b, <<Slash>>) THEN b
                 ELSE IF path = <<>> \/ EndsWith(path, <<Slash>>) THEN path \o b
                 ELSE path \o <<Slash>> \o b
         IN  PosixJoinFrom(joined, parts, i + 1)

PosixJoin(parts) == PosixJoinFrom(parts[1], parts, 2)

\* str.replace('\\', '/')
ReplaceBackslash(s) ==
    [i \in 1..Len(s) |-> IF s[i] = BackSlash THEN Slash ELSE s[i]]

\* reversed(family_tree)
Reversed(s) == [i \in 1..Len(s) |-> s[Len(s) + 1 - i]]

\* os.path.join(*reversed(family_tree)).replace('\\', '/')
JoinFamilyTree(tree) == ReplaceBackslash(PosixJoin(Reversed(tree)))

\* ---- inputs ----
MaxNodes == 4

Nodes == 1..MaxNodes

NameRoot == <<"R", "o", "o", "t">>
NameMid == <<"M", "i", "d">>
NameLeaf == <<"L", "e", "a", "f">>

SuiteNames ==
    {NameRoot, NameMid, NameLeaf, <<>>, <<Slash, "s">>, <<"w", BackSlash, "x">>}

\* parent links that form a finite forest: a parent has a smaller number
ParentLinks == {f \in [Nodes -> 0..(MaxNodes - 1)] : \A n \in Nodes : f[n] < n}

InitPath ==
    /\ suite_parent \in ParentLinks
    /\ suite_name \in [Nodes -> SuiteNames]
    /\ suite \in Nodes
    /\ current_suite = 0
    /\ family_tree = <<>>
    /\ ts_result = NoValue
    /\ tpc = "l125"
    /\ IdleAddr /\ IdleText /\ IdleBin /\ IdleLoad

\* if not suite.parent: return ''
ReturnEmptyForRoot ==
    /\ tpc = "l125"
    /\ suite_parent[suite] = 0
    /\ ts_result' = <<>>
    /\ tpc' = "done"
    /\ UNCHANGED <<suite_parent, suite_name, suite, current_suite, family_tree,
                   exceptPath>>

\* current_suite = suite.parent
StartAtParent ==
    /\ tpc = "l125"
    /\ suite_parent[suite] # 0
    /\ current_suite' = suite_parent[suite]
    /\ tpc' = "l128"
    /\ UNCHANGED <<suite_parent, suite_name, suite, family_tree, ts_result,
                   exceptPath>>

\* while current_suite: family_tree.append(current_suite.name);
\*                      current_suite = current_suite.parent
CollectAncestor ==
    /\ tpc = "l128"
    /\ current_suite # 0
    /\ family_tree' = Append(family_tree, suite_name[current_suite])
    /\ current_suite' = suite_parent[current_suite]
    /\ UNCHANGED <<suite_parent, suite_name, suite, ts_result, tpc, exceptPath>>

\* return os.path.join(*reversed(family_tree)).replace('\\', '/')
ReturnJoined ==
    /\ tpc = "l128"
    /\ current_suite = 0
    /\ ts_result' = JoinFamilyTree(family_tree)
    /\ tpc' = "done"
    /\ UNCHANGED <<suite_parent, suite_name, suite, current_suite, family_tree,
                   exceptPath>>

NextPath ==
    \/ ReturnEmptyForRoot
    \/ StartAtParent
    \/ CollectAncestor
    \/ ReturnJoined

SpecPath == InitPath /\ [][NextPath]_vars

\* ---- the documented contract of calculate_ts_parent_path ----
\* the proper ancestors of n, root first
RECURSIVE AncestorsRootFirst(_)
AncestorsRootFirst(n) ==
    IF suite_parent[n] = 0 THEN <<>>
    ELSE Append(AncestorsRootFirst(suite_parent[n]), suite_parent[n])

\* the names joined with one '/' between consecutive names
RECURSIVE JoinWithSlash(_)
JoinWithSlash(names) ==
    IF Len(names) = 0 THEN <<>>
    ELSE IF Len(names) = 1 THEN names[1]
    ELSE names[1] \o <<Slash>> \o JoinWithSlash(Tail(names))

DocAncestorPath(n) ==
    LET anc == AncestorsRootFirst(n)
    IN  JoinWithSlash([i \in 1..Len(anc) |-> ReplaceBackslash(suite_name[anc[i]])])

\* C3: for every node of every finite parent-linked tree the returned value
\* is the names of the node's proper ancestors, root first, each with its
\* backslashes replaced by '/', joined by a single '/', whatever the names
\* are (empty, or starting with a slash); '' for a node without parent.
C3_AncestorPath ==
    tpc = "done" => ts_result = DocAncestorPath(suite)

(***************************************************************************)
(* write_file_to_disk, read_file_from_disk                                 *)
(***************************************************************************)
NoFile == <<"<no file>">>
Eacute == "e-acute"

TextAlphabet == {"a", Eacute, CR, LF}

\* the Unicode code point of a character
CodePoint(c) ==
    CASE c = LF -> 10
      [] c = CR -> 13
      [] c = "a" -> 97
      [] c = Eacute -> 233

HasChar(cp) == \E c \in TextAlphabet : CodePoint(c) = cp

CharOf(cp) == CHOOSE c \in TextAlphabet : CodePoint(c) = cp

Encodings == {"utf-8", "latin-1", "ascii"}

\* whether the codec can encode the character
Encodable(c, enc) ==
    CASE enc = "utf-8" -> TRUE
      [] enc = "latin-1" -> CodePoint(c) < 256
      [] enc = "ascii" -> CodePoint(c) < 128

EncodeChar(c, enc) ==
    IF enc = "utf-8" /\ CodePoint(c) >= 128
    THEN <<192 + (CodePoint(c) \div 64), 128 + (CodePoint(c) % 64)>>
    ELSE <<CodePoint(c)>>

RECURSIVE EncodeText(_, _)
EncodeText(text, enc) ==
    IF text = <<>> THEN <<>>
    ELSE EncodeChar(Head(text), enc) \o EncodeText(Tail(text), enc)

CanEncode(text, enc) == \A i \in 1..Len(text) : Encodable(text[i], enc)

\* the decoded text, or NoValue when the bytes are not valid in the codec
RECURSIVE DecodeBytes(_, _)
DecodeBytes(bytes, enc) ==
    IF bytes = <<>> THEN <<>>
    ELSE LET b == Head(bytes)
             two == enc = "utf-8" /\ b >= 192 /\ b < 224 /\ Len(bytes) >= 2
             cp == IF two THEN (b - 192) * 64 + (bytes[2] - 128) ELSE b
             valid == /\ HasChar(cp)
                      /\ IF two THEN bytes[2] >= 128 /\ bytes[2] < 192
                         ELSE IF enc = "latin-1" THEN b < 256 ELSE b < 128
             rest == IF valid
                     THEN DecodeBytes(SubSeq(bytes, IF two THEN 3 ELSE 2,
                                             Len(bytes)), enc)
                     ELSE NoValue
         IN  IF rest = NoValue THEN NoValue ELSE <<CharOf(cp)>> \o rest

\* io.open(path, 'w') has newline=None: every '\n' written becomes os.linesep
RECURSIVE TranslateOnWrite(_, _)
TranslateOnWrite(text, sep) ==
    IF text = <<>> THEN <<>>
    ELSE (IF Head(text) = LF THEN sep ELSE <<Head(text)>>)
         \o TranslateOnWrite(Tail(text), sep)

\* io.open(path, 'r') has newline=None: '\r\n' and '\r' are read as '\n'
RECURSIVE TranslateOnRead(_)
TranslateOnRead(text) ==
    IF text = <<>> THEN <<>>
    ELSE IF Head(text) = CR
    THEN <<LF>> \o TranslateOnRead(
             IF Len(text) >= 2 /\ text[2] = LF
             THEN SubSeq(text, 3, Len(text)) ELSE Tail(text))
    ELSE <<Head(text)>> \o TranslateOnRead(Tail(text))

\* file_handle.readlines(): the lines, each keeping its '\n'
RECURSIVE SplitLinesFrom(_, _, _)
SplitLinesFrom(text, i, line) ==
    IF i > Len(text) THEN (IF line = <<>> THEN <<>> ELSE <<line>>)
    ELSE IF text[i] = LF
    THEN <<Append(line, LF)>> \o SplitLinesFrom(text, i + 1, <<>>)
    ELSE SplitLinesFrom(text, i + 1, Append(line, text[i]))

ReadLines(text) == SplitLinesFrom(text, 1, <<>>)

\* ---- inputs ----
MaxTextLen == 3

InitText ==
    /\ file_contents \in SeqsUpTo(TextAlphabet, MaxTextLen)
    /\ encoding \in Encodings
    /\ into_lines \in BOOLEAN
    /\ linesep \in {<<LF>>, <<CR, LF>>}
    /\ disk \in {NoFile, <<97, 97, 97, 97>>}
    /\ text_result = NoValue
    /\ text_error = ""
    /\ xpc = "w74"
    /\ IdleAddr /\ IdlePath /\ IdleBin /\ IdleLoad

\* write_file_to_disk: with open(path, 'w', encoding=encoding) as file_handle
WriteOpen ==
    /\ xpc = "w74"
    /\ disk' = <<>>
    /\ xpc' = "w75"
    /\ UNCHANGED <<file_contents, encoding, into_lines, linesep, text_result,
                   text_error, exceptText>>

\* file_handle.write(unicode(file_contents)), then the file is closed
WriteContents ==
    /\ xpc = "w75"
    /\ CanEncode(file_contents, encoding)
    /\ disk' = EncodeText(TranslateOnWrite(file_contents, linesep), encoding)
    /\ xpc' = "r37"
    /\ UNCHANGED <<file_contents, encoding, into_lines, linesep, text_result,
                   text_error, exceptText>>

\* the codec cannot encode the text: write raises, the file stays truncated
WriteRaises ==
    /\ xpc = "w75"
    /\ ~CanEncode(file_contents, encoding)
    /\ text_error' = "UnicodeEncodeError"
    /\ xpc' = "done"
    /\ UNCHANGED <<file_contents, encoding, into_lines, linesep, disk,
                   text_result, exceptText>>

\* read_file_from_disk: with open(path, 'r', encoding=encoding) as file_handle:
\*     return file_handle.readlines() if into_lines else file_handle.read()
ReadContents ==
    /\ xpc = "r37"
    /\ LET decoded == DecodeBytes(disk, encoding)
           text == TranslateOnRead(decoded)
       IN  IF decoded = NoValue
           THEN /\ text_error' = "UnicodeDecodeError"
                /\ UNCHANGED text_result
           ELSE /\ text_result' = IF into_lines THEN ReadLines(text) ELSE text
                /\ UNCHANGED text_error
    /\ xpc' = "done"
    /\ UNCHANGED <<file_contents, encoding, into_lines, linesep, disk,
                   exceptText>>

NextText ==
    \/ WriteOpen
    \/ WriteContents
    \/ WriteRaises
    \/ ReadContents

SpecText == InitText /\ [][NextText]_vars

\* C5: for every text content, carriage returns included, and every encoding
\* able to represent it, write_file_to_disk followed by read_file_from_disk
\* of the same path with the same encoding, in whole-string mode, returns a
\* string equal to the original content.
C5_TextRoundTrip ==
    (xpc = "done" /\ CanEncode(file_contents, encoding) /\ ~into_lines) =>
        /\ text_error = ""
        /\ text_result = file_contents

(***************************************************************************)
(* Paths, files and archives                                               *)
(***************************************************************************)
\* A path string is its components and whether it starts with '/'; an
\* absolute path of the file system is the sequence of its components.
PathArg(abs, parts) == [abs |-> abs, parts |-> parts]

\* posixpath.normpath on the components: '.' and '' are dropped, '..' takes
\* back the component before it ('/..' is '/', a leading '..' is kept)
RECURSIVE NormFrom(_, _, _, _)
NormFrom(parts, i, abs, stack) ==
    IF i > Len(parts) THEN stack
    ELSE LET c == parts[i]
             next ==
                 IF c = "." \/ c = "" THEN stack
                 ELSE IF c # ".." THEN Append(stack, c)
                 ELSE IF stack # <<>> /\ stack[Len(stack)] # ".."
                      THEN SubSeq(stack, 1, Len(stack) - 1)
                 ELSE IF abs THEN stack
                 ELSE Append(stack, c)
         IN  NormFrom(parts, i + 1, abs, next)

NormPath(path) ==
    [abs |-> path.abs, parts |-> NormFrom(path.parts, 1, path.abs, <<>>)]

\* os.path.basename of a normalised path
BaseName(path) ==
    IF path.parts # <<>> THEN path.parts[Len(path.parts)]
    ELSE IF path.abs THEN "" ELSE "."

\* the file the system call finds for a path string, from directory dir
AbsPath(dir, path) ==
    IF path.abs THEN NormFrom(path.parts, 1, TRUE, <<>>)
    ELSE NormFrom(dir \o path.parts, 1, TRUE, <<>>)

Parent(abspath) == SubSeq(abspath, 1, Len(abspath) - 1)

IsUnder(dir, f) == Len(dir) < Len(f) /\ SubSeq(f, 1, Len(dir)) = dir

RelTo(dir, f) == SubSeq(f, Len(dir) + 1, Len(f))

\* file contents: plain bytes, or the bytes of a zip archive, held as the
\* archive's members (name, directory entry or not, data)
Bytes(b) == [kind |-> "bytes", bytes |-> b, members |-> {}]
Zip(members) == [kind |-> "zip", bytes |-> <<>>, members |-> members]
NoContent == [kind |-> "none", bytes |-> <<>>, members |-> {}]

\* b64encode / b64decode: the payload carries the bytes in base64 text
B64Encode(content) == [enc |-> "b64", data |-> content]
\* file_handle.readlines() on the archive: a list of byte lines, not text
ByteLines(content) == [enc |-> "lines", data |-> content]
NoPayload == [enc |-> "none", data |-> NoContent]

\* shutil.make_archive(filename, 'zip', base_dir=path), root_dir left None:
\* every entry is named by normpath(base_dir), the leading '/' dropped by
\* zipfile, followed by the entry's path below base_dir
ArchiveRoot(path) == NormPath(path).parts

MakeZipMembers(files, dirs, dir, path) ==
    LET root == AbsPath(dir, path)
        arc == ArchiveRoot(path)
    IN  {[name |-> arc \o RelTo(root, f), isdir |-> FALSE, data |-> files[f]] :
            f \in {g \in DOMAIN files : IsUnder(root, g)}}
        \cup
        {[name |-> arc \o RelTo(root, d), isdir |-> TRUE, data |-> NoContent] :
            d \in {e \in dirs : (e = root /\ arc # <<>>) \/ IsUnder(root, e)}}

\* open(path, 'wb') and a write: the file is created, or truncated and rewritten
CreateFile(files, abspath, content) ==
    [f \in DOMAIN files \cup {abspath} |->
        IF f = abspath THEN content ELSE files[f]]

\* a removal that leaves the file in place
Unlink_Keep(files, abspath) == files

\* os.remove(path)
Unlink(files, abspath) == [f \in DOMAIN files \ {abspath} |-> files[f]]

\* shutil.unpack_archive(path, format='zip') with extract_dir left None: the
\* members go below os.getcwd(); a name holding '..' is skipped
Extractable(members) ==
    {m \in members : \A i \in 1..Len(m.name) : m.name[i] # ".."}

ExtractDir(dir, abspath) == dir

UnpackFiles(files, base, members) ==
    LET todo == {m \in Extractable(members) : ~m.isdir}
        targets == {base \o m.name : m \in todo}
    IN  [f \in DOMAIN files \cup targets |->
            IF f \in targets
            THEN (CHOOSE m \in todo : base \o m.name = f).data
            ELSE files[f]]

UnpackDirs(dirs, base, members) ==
    dirs \cup
    UNION {{base \o SubSeq(m.name, 1, k) :
               k \in 0..(Len(m.name) - (IF m.isdir THEN 0 ELSE 1))} :
           m \in Extractable(members)}

\* the files below a directory: (relative path, content)
RelTree(files, dir) ==
    {<<RelTo(dir, f), files[f]>> : f \in {g \in DOMAIN files : IsUnder(dir, g)}}

NoHandle == [open |-> FALSE, attached |-> FALSE, path |-> <<>>, data |-> NoContent]

(***************************************************************************)
(* read_binary_from_disk and write_binary_to_disk, run by the callers      *)
(***************************************************************************)
Procs == {1, 2}

MaxCalls == 2

Finished(p) == bpc[p] \in {"idle", "returned", "raised"}

\* the file the caller's local zipfile names, looked up from cwd
ZipPath(p) == cwd \o <<zipfile[p]>>

Raise(p, exception) ==
    /\ err' = [err EXCEPT ![p] = exception]
    /\ bpc' = [bpc EXCEPT ![p] = "raised"]

\* a caller starts read_binary_from_disk(path, into_lines) on a directory
CallRead(p, path, lines) ==
    /\ Finished(p)
    /\ ncalls[p] < MaxCalls
    /\ AbsPath(cwd, path) \in fs_dirs
    /\ call' = [call EXCEPT ![p] = [fn |-> "read", path |-> path,
                                    contents |-> NoPayload,
                                    into_lines |-> lines, fresh |-> FALSE]]
    /\ src_tree' = [src_tree EXCEPT ![p] = RelTree(fs_files, AbsPath(cwd, path))]
    /\ ncalls' = [ncalls EXCEPT ![p] = @ + 1]
    /\ bpc' = [bpc EXCEPT ![p] = "r53"]
    /\ err' = [err EXCEPT ![p] = ""]
    /\ UNCHANGED <<fsVars, filename, zipfile, file_handle, ret, exceptBin>>

\* filename = os.path.basename(os.path.normpath(path))
ReadBaseName(p) ==
    /\ bpc[p] = "r53"
    /\ filename' = [filename EXCEPT ![p] = BaseName(NormPath(call[p].path))]
    /\ bpc' = [bpc EXCEPT ![p] = "r55"]
    /\ UNCHANGED <<fsVars, call, zipfile, file_handle, ret, err, ncalls,
                   src_tree, exceptBin>>

\* zipfile = make_archive(f'{filename}', 'zip', base_dir=f'{path}')
ReadMakeArchive(p) ==
    /\ bpc[p] = "r55"
    /\ LET name == filename[p] \o ".zip"
       IN  /\ zipfile' = [zipfile EXCEPT ![p] = name]
           /\ fs_files' = CreateFile(fs_files, cwd \o <<name>>,
                              Zip(MakeZipMembers(fs_files, fs_dirs, cwd,
                                                 call[p].path)))
    /\ bpc' = [bpc EXCEPT ![p] = "r56"]
    /\ UNCHANGED <<fs_dirs, cwd, call, filename, file_handle, ret, err, ncalls,
                   src_tree, exceptBin>>

\* with open(zipfile, 'rb') as file_handle
ReadOpen(p) ==
    /\ bpc[p] = "r56"
    /\ IF ZipPath(p) \in DOMAIN fs_files
       THEN /\ file_handle' = [file_handle EXCEPT ![p] =
                   [open |-> TRUE, attached |-> TRUE, path |-> ZipPath(p),
                    data |-> NoContent]]
            /\ bpc' = [bpc EXCEPT ![p] = "r57"]
            /\ UNCHANGED err
       ELSE /\ Raise(p, "FileNotFoundError")
            /\ UNCHANGED file_handle
    /\ UNCHANGED <<fsVars, call, filename, zipfile, ret, ncalls, src_tree,
                   exceptBin>>

\* the bytes an open handle reads: those of the file, also after its name
\* was removed
HandleData(h) == IF h.attached THEN fs_files[h.path] ELSE h.data

\* ret = file_handle.readlines() if into_lines else b64encode(file_handle.read())
ReadEncode(p) ==
    /\ bpc[p] = "r57"
    /\ ret' = [ret EXCEPT ![p] =
                  IF call[p].into_lines
                  THEN ByteLines(HandleData(file_handle[p]))
                  ELSE B64Encode(HandleData(file_handle[p]))]
    /\ bpc' = [bpc EXCEPT ![p] = "r58"]
    /\ UNCHANGED <<fsVars, call, filename, zipfile, file_handle, err, ncalls,
                   src_tree, exceptBin>>

\* file_handle.close()
ReadClose(p) ==
    /\ bpc[p] = "r58"
    /\ file_handle' = [file_handle EXCEPT ![p] = NoHandle]
    /\ bpc' = [bpc EXCEPT ![p] = "r59"]
    /\ UNCHANGED <<fsVars, call, filename, zipfile, ret, err, ncalls, src_tree,
                   exceptBin>>

\* os.remove(zipfile): handles open on the file keep its bytes
ReadRemove(p) ==
    /\ bpc[p] = "r59"
    /\ IF ZipPath(p) \in DOMAIN fs_files
       THEN /\ fs_files' = Unlink(fs_files, ZipPath(p))
            /\ file_handle' =
                  [q \in Procs |->
                      IF file_handle[q].attached /\ file_handle[q].path = ZipPath(p)
                      THEN [file_handle[q] EXCEPT !.attached = FALSE,
                                                  !.data = fs_files[ZipPath(p)]]
                      ELSE file_handle[q]]
            /\ bpc' = [bpc EXCEPT ![p] = "r60"]
            /\ UNCHANGED err
       ELSE /\ Raise(p, "FileNotFoundError")
            /\ UNCHANGED <<fs_files, file_handle>>
    /\ UNCHANGED <<fs_dirs, cwd, call, filename, zipfile, ret, ncalls, src_tree,
                   exceptBin>>

\* return ret
ReadReturn(p) ==
    /\ bpc[p] = "r60"
    /\ bpc' = [bpc EXCEPT ![p] = "returned"]
    /\ UNCHANGED <<fsVars, call, filename, zipfile, file_handle, ret, err,
                   ncalls, src_tree, exceptBin>>

\* a caller passes what read_binary_from_disk returned to
\* write_binary_to_disk(path, file_contents)
CallWrite(p, path) ==
    /\ bpc[p] = "returned"
    /\ call[p].fn = "read"
    /\ ncalls[p] < MaxCalls
    /\ call' = [call EXCEPT ![p] =
                  [fn |-> "write", path |-> path, contents |-> ret[p],
                   into_lines |-> FALSE,
                   fresh |-> /\ AbsPath(cwd, path) \notin DOMAIN fs_files
                             /\ AbsPath(cwd, path) \notin fs_dirs]]
    /\ ncalls' = [ncalls EXCEPT ![p] = @ + 1]
    /\ bpc' = [bpc EXCEPT ![p] = "w88"]
    /\ err' = [err EXCEPT ![p] = ""]
    /\ UNCHANGED <<fsVars, filename, zipfile, file_handle, ret, src_tree,
                   exceptBin>>

\* the file write_binary_to_disk opens and hands to unpack_archive
ArchiveFile(dir, path) == AbsPath(dir, path)

\* with open(path, 'wb') as file_handle
WriteOpenBinary(p) ==
    /\ bpc[p] = "w88"
    /\ LET target == ArchiveFile(cwd, call[p].path)
       IN  IF target \in fs_dirs
           THEN Raise(p, "IsADirectoryError") /\ UNCHANGED fs_files
           ELSE IF Parent(target) \notin fs_dirs
           THEN Raise(p, "FileNotFoundError") /\ UNCHANGED fs_files
           ELSE /\ fs_files' = CreateFile(fs_files, target, Bytes(<<>>))
                /\ bpc' = [bpc EXCEPT ![p] = "w89"]
                /\ UNCHANGED err
    /\ UNCHANGED <<fs_dirs, cwd, call, filename, zipfile, file_handle, ret,
                   ncalls, src_tree, exceptBin>>

\* file_handle.write(b64decode(file_contents)); file_handle.close()
WriteDecoded(p) ==
    /\ bpc[p] = "w89"
    /\ IF call[p].contents.enc = "b64"
       THEN /\ fs_files' = CreateFile(fs_files, ArchiveFile(cwd, call[p].path),
                                      call[p].contents.data)
            /\ bpc' = [bpc EXCEPT ![p] = "w91"]
            /\ UNCHANGED err
       ELSE Raise(p, "TypeError") /\ UNCHANGED fs_files
    /\ UNCHANGED <<fs_dirs, cwd, call, filename, zipfile, file_handle, ret,
                   ncalls, src_tree, exceptBin>>

\* unpack_archive(path, format='zip')
WriteUnpack(p) ==
    /\ bpc[p] = "w91"
    /\ LET archive == fs_files[ArchiveFile(cwd, call[p].path)]
           base == ExtractDir(cwd, AbsPath(cwd, call[p].path))
       IN  IF archive.kind = "zip"
           THEN /\ fs_files' = UnpackFiles(fs_files, base, archive.members)
                /\ fs_dirs' = UnpackDirs(fs_dirs, base, archive.members)
                /\ bpc' = [bpc EXCEPT ![p] = "returned"]
                /\ UNCHANGED err
           ELSE Raise(p, "ReadError") /\ UNCHANGED <<fs_files, fs_dirs>>
    /\ UNCHANGED <<cwd, call, filename, zipfile, file_handle, ret, ncalls,
                   src_tree, exceptBin>>

\* ---- inputs ----
DirW == <<"w">>
DirD == <<"d">>

InitialDirs ==
    { <<>>, DirW, <<"w", "suite">>, <<"w", "suite", "sub">>,
      <<"p">>, <<"p", "suite">>, <<"q">>, <<"q", "other">>, DirD }

InitialFiles ==
    (<<"w", "suite", "f1">> :> Bytes(<<120>>))
    @@ (<<"w", "suite", "sub", "f2">> :> Bytes(<<121>>))
    @@ (<<"p", "suite", "f1">> :> Bytes(<<122>>))
    @@ (<<"q", "other", "g">> :> Bytes(<<118>>))

ReadPaths ==
    { PathArg(FALSE, <<"suite">>),
      PathArg(FALSE, <<".", "suite", "">>),
      PathArg(TRUE, <<"w", "suite">>),
      PathArg(TRUE, <<"p", "suite">>),
      PathArg(FALSE, <<"..", "p", "suite">>),
      PathArg(TRUE, <<"q", "other">>) }

DestPaths ==
    { PathArg(TRUE, <<"d", "out">>),
      PathArg(FALSE, <<"out">>),
      PathArg(TRUE, <<"w", "suite">>),
      PathArg(TRUE, <<"n", "out">>) }

NoCall == [fn |-> "none", path |-> PathArg(FALSE, <<>>), contents |-> NoPayload,
           into_lines |-> FALSE, fresh |-> FALSE]

InitFs ==
    /\ cwd \in {DirW, DirD}
    /\ fs_dirs = InitialDirs
    /\ \E stale \in BOOLEAN :
          fs_files = IF stale
                     THEN CreateFile(InitialFiles, cwd \o <<"suite.zip">>,
                                     Bytes(<<0>>))
                     ELSE InitialFiles

InitArchive ==
    /\ InitFs
    /\ call = [p \in Procs |-> NoCall]
    /\ filename = [p \in Procs |-> ""]
    /\ zipfile = [p \in Procs |-> ""]
    /\ file_handle = [p \in Procs |-> NoHandle]
    /\ ret = [p \in Procs |-> NoPayload]
    /\ bpc = [p \in Procs |-> "idle"]
    /\ err = [p \in Procs |-> ""]
    /\ ncalls = [p \in Procs |-> 0]
    /\ src_tree = [p \in Procs |-> {}]
    /\ IdleAddr /\ IdlePath /\ IdleText /\ IdleLoad

\* one caller, calling the two functions one call after the other
NextArchive ==
    \/ \E path \in ReadPaths, lines \in BOOLEAN : CallRead(1, path, lines)
    \/ ReadBaseName(1)
    \/ ReadMakeArchive(1)
    \/ ReadOpen(1)
    \/ ReadEncode(1)
    \/ ReadClose(1)
    \/ ReadRemove(1)
    \/ ReadReturn(1)
    \/ \E path \in DestPaths : CallWrite(1, path)
    \/ WriteOpenBinary(1)
    \/ WriteDecoded(1)
    \/ WriteUnpack(1)

SpecArchive == InitArchive /\ [][NextArchive]_vars

\* two callers, each in one call of read_binary_from_disk, on two directories
InitConc ==
    /\ InitFs
    /\ \E p1 \in ReadPaths, p2 \in ReadPaths :
          /\ AbsPath(cwd, p1) \in fs_dirs
          /\ AbsPath(cwd, p2) \in fs_dirs
          /\ AbsPath(cwd, p1) # AbsPath(cwd, p2)
          /\ call = [p \in Procs |->
                       [fn |-> "read", path |-> IF p = 1 THEN p1 ELSE p2,
                        contents |-> NoPayload, into_lines |-> FALSE,
                        fresh |-> FALSE]]
    /\ filename = [p \in Procs |-> ""]
    /\ zipfile = [p \in Procs |-> ""]
    /\ file_handle = [p \in Procs |-> NoHandle]
    /\ ret = [p \in Procs |-> NoPayload]
    /\ bpc = [p \in Procs |-> "r53"]
    /\ err = [p \in Procs |-> ""]
    /\ ncalls = [p \in Procs |-> 1]
    /\ src_tree = [p \in Procs |-> RelTree(fs_files, AbsPath(cwd, call[p].path))]
    /\ IdleAddr /\ IdlePath /\ IdleText /\ IdleLoad

NextConc ==
    \E p \in Procs :
        \/ ReadBaseName(p)
        \/ ReadMakeArchive(p)
        \/ ReadOpen(p)
        \/ ReadEncode(p)
        \/ ReadClose(p)
        \/ ReadRemove(p)
        \/ ReadReturn(p)

SpecConc == InitConc /\ [][NextConc]_vars

\* ---- the documented contracts of the two archive functions ----
\* the entries (files and directories) of a directory, relative to it
RelEntries(dir) ==
    {RelTo(dir, f) : f \in {g \in DOMAIN fs_files : IsUnder(dir, g)}}
    \cup {RelTo(dir, d) : d \in {e \in fs_dirs : e = dir \/ IsUnder(dir, e)}}

\* C8: every member of the archive read_binary_from_disk builds is named by
\* the leaf directory name of the path followed by the entry's path inside
\* the directory, never by the full path that was passed in.
C8_MembersRootedAtLeaf ==
    bpc[1] = "r56" =>
        {m.name : m \in fs_files[ZipPath(1)].members}
            = {<<filename[1]>> \o rel :
                  rel \in RelEntries(AbsPath(cwd, call[1].path))}

\* C7: after a successful read_binary_from_disk, also one of several calls
\* in a row, the zip archive the call created in the working directory is
\* gone, and it is removed only after its bytes were read: it is still there,
\* holding the archive, until the returned value holds these bytes.
C7_TempArchiveRemoved ==
    /\ (bpc[1] \in {"r56", "r57"}) =>
          /\ ZipPath(1) \in DOMAIN fs_files
          /\ fs_files[ZipPath(1)].kind = "zip"
    /\ (bpc[1] \in {"r58", "r59"}) =>
          /\ ZipPath(1) \in DOMAIN fs_files
          /\ ret[1].data = fs_files[ZipPath(1)]
    /\ (call[1].fn = "read" /\ bpc[1] \in {"r60", "returned"}) =>
          /\ ZipPath(1) \notin DOMAIN fs_files
          /\ ret[1].data.kind = "zip"
          /\ err[1] = ""

\* the second of two successful calls in a row has returned its base64
\* payload and its suite.zip is gone from the working directory
C7_Witness ==
    /\ call[1].fn = "read"
    /\ bpc[1] = "returned"
    /\ ncalls[1] = 2
    /\ zipfile[1] = "suite.zip"
    /\ ret[1].enc = "b64"
    /\ ret[1].data.members # {}
    /\ ZipPath(1) \notin DOMAIN fs_files

\* the temporary file the documentation names: path plus an archive extension
DocArchiveFile(dir, path) ==
    LET abspath == AbsPath(dir, path)
    IN  Append(Parent(abspath), abspath[Len(abspath)] \o ".zip")

\* C9: write_binary_to_disk writes the decoded bytes to a temporary file named
\* path plus an archive extension, not over path itself, and extracts every
\* member into the destination directory implied by path (path, or the
\* directory holding it), whatever the current working directory is.
C9_WriteBinaryContract ==
    (call[1].fn = "write" /\ bpc[1] = "returned") =>
        LET dest == AbsPath(cwd, call[1].path)
            archive == call[1].contents.data
            tmp == DocArchiveFile(cwd, call[1].path)
        IN  /\ tmp \in DOMAIN fs_files
            /\ fs_files[tmp] = archive
            /\ ~(dest \in DOMAIN fs_files /\ fs_files[dest] = archive)
            /\ \E base \in {dest, Parent(dest)} :
                  \A m \in archive.members :
                      ~m.isdir =>
                          /\ base \o m.name \in DOMAIN fs_files
                          /\ fs_files[base \o m.name] = m.data

\* C4: read_binary_from_disk on a directory, then write_binary_to_disk of the
\* returned text to a fresh destination path, leaves at the destination (or
\* in the directory of the leaf name below it) a tree with the files of the
\* original directory, byte for byte.
C4_ArchiveRoundTrip ==
    (call[1].fn = "write" /\ call[1].fresh /\ bpc[1] = "returned") =>
        LET dest == AbsPath(cwd, call[1].path)
        IN  \/ RelTree(fs_files, dest) = src_tree[1]
            \/ RelTree(fs_files, Append(dest, filename[1])) = src_tree[1]

\* C6: two concurrent read_binary_from_disk calls on different directories,
\* also directories of the same leaf name under different parents: each
\* call completes without an error and returns the payload it returns alone.
C6_ConcurrentReadsIndependent ==
    \A p \in Procs :
        Finished(p) =>
            /\ err[p] = ""
            /\ ret[p] = B64Encode(Zip(MakeZipMembers(fs_files, fs_dirs, cwd,
                                                     call[p].path)))

(***************************************************************************)
(* The module-level statements, executed when the module is imported       *)
(***************************************************************************)
\* the statements in source order: the names each reads and binds
Statements ==
    << [line |-> 1, kind |-> "import", reads |-> {}, binds |-> {"open"}],
       [line |-> 2, kind |-> "import", reads |-> {}, binds |-> {"os"}],
       [line |-> 3, kind |-> "import", reads |-> {}, binds |-> {"re"}],
       [line |-> 4, kind |-> "import", reads |-> {}, binds |-> {"six"}],
       [line |-> 5, kind |-> "import", reads |-> {},
        binds |-> {"make_archive", "unpack_archive"}],
       [line |-> 6, kind |-> "import", reads |-> {},
        binds |-> {"b64encode", "b64decode"}],
       [line |-> 7, kind |-> "import", reads |-> {}, binds |-> {"logging"}],
       [line |-> 9, kind |-> "basicConfig", reads |-> {"logging", "__name__"},
        binds |-> {}],
       [line |-> 10, kind |-> "getLogger", reads |-> {"logging", "__file__"},
        binds |-> {"logger"}],
       [line |-> 11, kind |-> "setLevel", reads |-> {"logger", "logging", "debug"},
        binds |-> {}],
       [line |-> 13, kind |-> "assign", reads |-> {}, binds |-> {"PORT_INC_REGEX"}],
       [line |-> 18, kind |-> "alias", reads |-> {"six", "str"},
        binds |-> {"unicode"}],
       [line |-> 22, kind |-> "def", reads |-> {}, binds |-> {"read_file_from_disk"}],
       [line |-> 41, kind |-> "def", reads |-> {}, binds |-> {"read_binary_from_disk"}],
       [line |-> 62, kind |-> "def", reads |-> {}, binds |-> {"write_file_to_disk"}],
       [line |-> 78, kind |-> "def", reads |-> {}, binds |-> {"write_binary_to_disk"}],
       [line |-> 93, kind |-> "def", reads |-> {},
        binds |-> {"normalize_xmlrpc_address"}],
       [line |-> 112, kind |-> "def", reads |-> {},
        binds |-> {"calculate_ts_parent_path"}] >>

\* the global names the body of each function reads when it is called
BodyReads ==
    [read_file_from_disk |-> {"logger", "open"},
     read_binary_from_disk |-> {"os", "logger", "make_archive", "open",
                                "b64encode"},
     write_file_to_disk |-> {"logger", "open", "unicode"},
     write_binary_to_disk |-> {"logger", "open", "b64decode", "unpack_archive"},
     normalize_xmlrpc_address |-> {"re", "PORT_INC_REGEX"},
     calculate_ts_parent_path |-> {"os", "reversed"}]

Functions == DOMAIN BodyReads

\* the names the interpreter's builtins module holds, with what the
\* importing process added to it
Builtins(env) ==
    {"str", "reversed"} \cup (IF env.debug = "undefined" THEN {} ELSE {"debug"})

\* a name is looked up in the module's globals, then in the builtins
Defined(name) == name \in module_globals \cup Builtins(load_env)

Loading == lpc \in 1..Len(Statements) /\ load_error = ""

Loaded == lpc = Len(Statements) + 1 /\ load_error = ""

\* the statement binds its names, or raises NameError at the first read of
\* a name that is not defined
Execute(stmt) ==
    IF \A n \in stmt.reads : Defined(n)
    THEN /\ module_globals' = module_globals \cup stmt.binds
         /\ lpc' = lpc + 1
         /\ UNCHANGED load_error
    ELSE /\ load_error' = "NameError"
         /\ UNCHANGED <<module_globals, lpc>>

InitLoad ==
    /\ load_env \in [debug : {"undefined", "true", "false"},
                     root_configured : BOOLEAN,
                     cwd_writable : BOOLEAN]
    /\ module_globals = {"__name__", "__file__"}
    /\ lpc = 1
    /\ load_error = ""
    /\ logger_level = "NOTSET"
    /\ root_handlers = IF load_env.root_configured THEN {"configured"} ELSE {}
    /\ called = [fn |-> "", error |-> ""]
    /\ IdleAddr /\ IdlePath /\ IdleText /\ IdleBin

\* lines 1-7: from io import open ... import logging
ExecImport ==
    /\ Loading
    /\ Statements[lpc].kind = "import"
    /\ Execute(Statements[lpc])
    /\ UNCHANGED <<load_env, logger_level, root_handlers, called, exceptLoad>>

\* line 9: logging.basicConfig(format=..., level=logging.INFO,
\*                             filename=f'{__name__}.log')
\* does nothing when the root logger has handlers; else it opens the log
\* file in the working directory
ExecBasicConfig ==
    /\ Loading
    /\ Statements[lpc].kind = "basicConfig"
    /\ IF root_handlers = {} /\ ~load_env.cwd_writable
       THEN /\ load_error' = "PermissionError"
            /\ UNCHANGED <<module_globals, lpc, root_handlers>>
       ELSE /\ Execute(Statements[lpc])
            /\ root_handlers' = IF root_handlers = {} THEN {"file"}
                                ELSE root_handlers
    /\ UNCHANGED <<load_env, logger_level, called, exceptLoad>>

\* line 10: logger = logging.getLogger(__file__)
ExecGetLogger ==
    /\ Loading
    /\ Statements[lpc].kind = "getLogger"
    /\ Execute(Statements[lpc])
    /\ UNCHANGED <<load_env, logger_level, root_handlers, called, exceptLoad>>

\* line 11: logger.setLevel(logging.DEBUG if debug else logging.INFO)
ExecSetLevel ==
    /\ Loading
    /\ Statements[lpc].kind = "setLevel"
    /\ Execute(Statements[lpc])
    /\ logger_level' =
          IF ~Defined("debug") THEN logger_level
          ELSE IF load_env.debug = "true" THEN "DEBUG" ELSE "INFO"
    /\ UNCHANGED <<load_env, root_handlers, called, exceptLoad>>

\* line 13: PORT_INC_REGEX = '.*:[0-9]{1,5}$'
ExecAssign ==
    /\ Loading
    /\ Statements[lpc].kind = "assign"
    /\ Execute(Statements[lpc])
    /\ UNCHANGED <<load_env, logger_level, root_handlers, called, exceptLoad>>

\* lines 18-19: if six.PY3: unicode = str   (six.PY3 holds: the f-strings of
\* the module are Python 3 syntax)
ExecUnicodeAlias ==
    /\ Loading
    /\ Statements[lpc].kind = "alias"
    /\ Execute(Statements[lpc])
    /\ UNCHANGED <<load_env, logger_level, root_handlers, called, exceptLoad>>

\* lines 22-133: the six def statements
ExecDef ==
    /\ Loading
    /\ Statements[lpc].kind = "def"
    /\ Execute(Statements[lpc])
    /\ UNCHANGED <<load_env, logger_level, root_handlers, called, exceptLoad>>

\* after the import a caller calls one of the functions: its body finds the
\* global names it reads, or raises NameError
CallFunction(f) ==
    /\ Loaded
    /\ called' = [fn |-> f,
                  error |-> IF \A n \in BodyReads[f] \cup {f} : Defined(n)
                            THEN "" ELSE "NameError"]
    /\ UNCHANGED <<load_env, module_globals, lpc, load_error, logger_level,
                   root_handlers, exceptLoad>>

NextLoad ==
    \/ ExecImport
    \/ ExecBasicConfig
    \/ ExecGetLogger
    \/ ExecSetLevel
    \/ ExecAssign
    \/ ExecUnicodeAlias
    \/ ExecDef
    \/ \E f \in Functions : CallFunction(f)

SpecLoad == InitLoad /\ [][NextLoad]_vars

\* C10: loading the module completes without raising an error (here: in
\* every process that can create the log file), every name the module-level
\* statements read being defined before it is read, and after loading each
\* function is callable without setup by the caller.
C10_ModuleLoads ==
    /\ load_env.cwd_writable => load_error = ""
    /\ called.error = ""

=============================================================================
